---- MODULE Spec2Model ----
(***************************************************************************)
(* Contact directory (cli_bot_classes.py) and its interactive assistant    *)
(* (cli_bot.py): records with normalized phones and an optional birthday,  *)
(* the address book keyed by name, the upcoming-birthdays computation,     *)
(* the JSON persistence functions and the command loop.                    *)
(***************************************************************************)
EXTENDS Integers, Sequences, FiniteSets, TLC

VARIABLES data, file, ret, out, pc

vars == <<data, file, ret, out, pc>>

----------------------------------------------------------------------------
(* Bounds and input domains *)

MaxPhones == 2

Names == {"Ann", "Bob"}

RawPhones == {"0501", "+380501", "+380502", "abc"}

\* a field of a raw birthday string that int() rejects
NonNumeric == -1

\* "DD.MM.YYYY" strings as the fields split('.') yields
RawBirthdays ==
    { <<15, 6, 1990>>, <<9, 6, 1991>>, <<29, 2, 2020>>,
      <<29, 2, 2021>>, <<NonNumeric, 6, 1990>>, <<15, 6>> }

\* values of date.today(): Mondays 3, 10 and 17 June 2024, Friday 30 June 2023
Todays == { <<2024, 6, 3>>, <<2024, 6, 10>>, <<2024, 6, 17>>, <<2023, 6, 30>> }

NoBirthday == <<>>

Range(s) == { s[i] : i \in 1..Len(s) }

----------------------------------------------------------------------------
(* datetime.date as the code uses it: dates are <<year, month, day>> *)

IsLeap(y) == (y % 4 = 0) /\ ((y % 100 # 0) \/ (y % 400 = 0))

DaysInMonth(y, m) ==
    IF m = 2 THEN (IF IsLeap(y) THEN 29 ELSE 28)
    ELSE IF m \in {4, 6, 9, 11} THEN 30 ELSE 31

\* date(year, month, day) raises ValueError unless this holds
ValidDate(y, m, d) ==
    /\ y \in 1..9999
    /\ m \in 1..12
    /\ d \in 1..DaysInMonth(y, m)

DaysBeforeYear(y) ==
    (y - 1) * 365 + ((y - 1) \div 4) - ((y - 1) \div 100) + ((y - 1) \div 400)

RECURSIVE DaysBeforeMonth(_, _)
DaysBeforeMonth(y, m) ==
    IF m = 1 THEN 0 ELSE DaysBeforeMonth(y, m - 1) + DaysInMonth(y, m - 1)

ToOrdinal(dt) == DaysBeforeYear(dt[1]) + DaysBeforeMonth(dt[1], dt[2]) + dt[3]

\* date.weekday(): Monday is 0, Saturday 5, Sunday 6
Weekday(dt) == (ToOrdinal(dt) + 6) % 7

NextDay(dt) ==
    IF dt[3] < DaysInMonth(dt[1], dt[2]) THEN <<dt[1], dt[2], dt[3] + 1>>
    ELSE IF dt[2] < 12 THEN <<dt[1], dt[2] + 1, 1>>
    ELSE <<dt[1] + 1, 1, 1>>

\* date + timedelta(days=n), n >= 0
RECURSIVE AddDays(_, _)
AddDays(dt, n) == IF n = 0 THEN dt ELSE AddDays(NextDay(dt), n - 1)

----------------------------------------------------------------------------
(* normalize_phone: validates a raw phone and returns its canonical form *)

ValidPhone(raw) == raw \in {"0501", "+380501", "+380502"}

normalize_phone(raw) ==
    CASE raw = "0501" -> "+380501"
      [] raw = "+380501" -> "+380501"
      [] raw = "+380502" -> "+380502"

----------------------------------------------------------------------------
(* Outcome of a call: the exception it raised ("None" when it returned),  *)
(* the message of the exception, and the lines it printed.                *)

Ok(rec, printed) == [exc |-> "None", msg |-> "", rec |-> rec, printed |-> printed]

Raise(exc, msg, rec, printed) == [exc |-> exc, msg |-> msg, rec |-> rec, printed |-> printed]

(* Birthday.__init__: value.split('.'), int() of each field, date(y, m, d) *)
BirthdayParses(value) ==
    /\ Len(value) = 3
    /\ \A i \in 1..3 : value[i] # NonNumeric
    /\ ValidDate(value[3], value[2], value[1])

BirthdayValue(value) == <<value[3], value[2], value[1]>>

----------------------------------------------------------------------------
(* Record *)

NewRecord(name) == [name |-> name, phones |-> <<>>, birthday |-> NoBirthday]

add_phone(rec, phone) ==
    IF phone \in Range(rec.phones)
    THEN Raise("ValueError", "Phone already exists", rec, <<>>)
    ELSE IF ~ValidPhone(phone)
    THEN Raise("ValueError", "Invalid phone", rec, <<>>)
    ELSE Ok([rec EXCEPT !.phones = Append(@, normalize_phone(phone))], <<>>)

\* index of the first stored phone equal to v, 0 when there is none
FirstIndex(phones, v) ==
    IF v \in Range(phones)
    THEN CHOOSE i \in 1..Len(phones) :
            /\ phones[i] = v
            /\ \A j \in 1..(i - 1) : phones[j] # v
    ELSE 0

edit_phone(rec, phone, new_phone) ==
    IF rec.phones = <<>> THEN Ok(rec, <<>>)
    ELSE IF ~ValidPhone(phone)
    THEN Raise("ValueError", "Invalid phone", rec, <<>>)
    ELSE LET i == FirstIndex(rec.phones, normalize_phone(phone)) IN
         IF i = 0 THEN Ok(rec, <<>>)
         ELSE IF ~ValidPhone(new_phone)
         THEN Raise("ValueError", "Invalid phone", rec, <<>>)
         ELSE Ok([rec EXCEPT !.phones[i] = normalize_phone(new_phone)], <<>>)

RemoveAt(s, i) == SubSeq(s, 1, i - 1) \o SubSeq(s, i + 1, Len(s))

delete_phone(rec, phone) ==
    IF rec.phones = <<>> THEN Ok(rec, <<>>)
    ELSE IF ~ValidPhone(phone)
    THEN Raise("ValueError", "Invalid phone", rec, <<>>)
    ELSE LET i == FirstIndex(rec.phones, normalize_phone(phone)) IN
         IF i = 0 THEN Ok(rec, <<>>)
         ELSE Ok([rec EXCEPT !.phones = RemoveAt(@, i)], <<>>)

add_birthday(rec, value) ==
    IF BirthdayParses(value)
    THEN Ok([rec EXCEPT !.birthday = BirthdayValue(value)], <<>>)
    ELSE Ok(rec, <<"Invalid date format. Use DD.MM.YYYY">>)

\* Record.__init__(name, phones, birthday): add_phone for each phone, a
\* ValueError printed and skipped; add_birthday when a birthday is given
RECURSIVE InitPhones(_, _)
InitPhones(res, phones) ==
    IF phones = <<>> THEN res
    ELSE LET r == add_phone(res.rec, Head(phones)) IN
         InitPhones(
            Ok(r.rec, IF r.exc = "None" THEN res.printed ELSE Append(res.printed, r.msg)),
            Tail(phones))

RecordInit(name, phones, birthday) ==
    LET withPhones == InitPhones(Ok(NewRecord(name), <<>>), phones) IN
    IF birthday # NoBirthday
    THEN LET b == add_birthday(withPhones.rec, birthday) IN
         Ok(b.rec, withPhones.printed \o b.printed)
    ELSE withPhones

----------------------------------------------------------------------------
(* AddressBook: data is the insertion-ordered dict name -> Record, kept   *)
(* as the sequence of its values                                          *)

KeyIndex(d, name) ==
    IF \E i \in 1..Len(d) : d[i].name = name
    THEN CHOOSE i \in 1..Len(d) : d[i].name = name
    ELSE 0

Keys(d) == { d[i].name : i \in 1..Len(d) }

\* d after a method mutated, in place, the record stored under rec.name
Store(d, rec) == [d EXCEPT ![KeyIndex(d, rec.name)] = rec]

\* add_record keeping the record already stored under the name
add_record_keep(d, record) ==
    IF KeyIndex(d, record.name) = 0 THEN Append(d, record) ELSE d

add_record(d, record) ==
    LET i == KeyIndex(d, record.name) IN
    IF i = 0 THEN Append(d, record) ELSE [d EXCEPT ![i] = record]

\* find(name): <<record>> when the key is present, <<>> for None
find(d, name) ==
    LET i == KeyIndex(d, name) IN
    IF i = 0 THEN <<>> ELSE <<d[i]>>

\* delete_record without the membership test, popping the last entry
delete_record_pop(d, name) ==
    LET i == KeyIndex(d, name) IN
    IF i = 0 THEN SubSeq(d, 1, Len(d) - 1) ELSE RemoveAt(d, i)

delete_record(d, name) ==
    LET i == KeyIndex(d, name) IN
    IF i = 0 THEN d ELSE RemoveAt(d, i)

\* days_until_birthday with the window tested before the weekend shift
ShiftedDays_late(birthday_this_year, today) ==
    LET days_until_birthday == ToOrdinal(birthday_this_year) - ToOrdinal(today) IN
    IF days_until_birthday < 0 THEN days_until_birthday
    ELSE IF Weekday(birthday_this_year) = 5 THEN days_until_birthday + 2
    ELSE IF Weekday(birthday_this_year) = 6 THEN days_until_birthday + 1
    ELSE days_until_birthday

\* days_until_birthday after the weekend shift
ShiftedDays(birthday_this_year, today) ==
    LET days_until_birthday == ToOrdinal(birthday_this_year) - ToOrdinal(today) IN
    IF Weekday(birthday_this_year) = 5 THEN days_until_birthday + 2
    ELSE IF Weekday(birthday_this_year) = 6 THEN days_until_birthday + 1
    ELSE days_until_birthday

InWindow(days_until_birthday) == 0 <= days_until_birthday /\ days_until_birthday <= 7

\* what one iteration of the loop raises for a record
IterationExc(record, today) ==
    IF record.birthday = NoBirthday THEN "AttributeError"
    ELSE IF ~ValidDate(today[1], record.birthday[2], record.birthday[3]) THEN "ValueError"
    ELSE "None"

\* the list upcoming_birthdays built by the loop over d[1..n], when no
\* iteration raises; now is date.today() as read again for congrats_day
RECURSIVE UpcomingList(_, _, _, _)
UpcomingList(d, n, today, now) ==
    IF n = 0 THEN <<>>
    ELSE LET record == d[n]
             birthday_this_year == <<today[1], record.birthday[2], record.birthday[3]>>
             days == ShiftedDays(birthday_this_year, today)
             rest == UpcomingList(d, n - 1, today, now)
         IN  IF InWindow(days)
             THEN Append(rest, [name |-> record.name,
                                birthday |-> birthday_this_year,
                                congrats_day |-> AddDays(now, days)])
             ELSE rest

\* the returned text "Upcoming birthdays: name on birthday ...": one line per
\* entry, holding its name and birthday only
FormatUpcoming(list) ==
    [i \in 1..Len(list) |-> [name |-> list[i].name, birthday |-> list[i].birthday]]

get_upcoming_birthdays(d, today, now) ==
    IF \E i \in 1..Len(d) : IterationExc(d[i], today) # "None"
    THEN LET i == CHOOSE k \in 1..Len(d) :
                     /\ IterationExc(d[k], today) # "None"
                     /\ \A j \in 1..(k - 1) : IterationExc(d[j], today) = "None"
         IN  [exc |-> IterationExc(d[i], today), list |-> <<>>, value |-> <<>>]
    ELSE LET list == UpcomingList(d, Len(d), today, now) IN
         [exc |-> "None", list |-> list, value |-> FormatUpcoming(list)]

----------------------------------------------------------------------------
(* Persistence: phonebook.json is "absent", or holds the text written     *)

\* json.dump accepts dict, list, tuple, str, int, float, bool and None; an
\* AddressBook is a UserDict, which is none of these
JsonSerializable(type) ==
    type \in {"dict", "list", "tuple", "str", "int", "float", "bool", "NoneType"}

NoFile == [exists |-> FALSE, json |-> FALSE, value |-> <<>>]

\* open(path, "w") truncates the file before json.dump runs; json.dump
\* raises before writing anything when the object is not serializable
save_phonebook(phonebook, type) ==
    IF JsonSerializable(type)
    THEN [exc |-> "None", file |-> [exists |-> TRUE, json |-> TRUE, value |-> phonebook]]
    ELSE [exc |-> "TypeError", file |-> [exists |-> TRUE, json |-> FALSE, value |-> <<>>]]

\* FileNotFoundError gives an empty AddressBook; a file that holds no JSON
\* document makes json.load raise JSONDecodeError, which is not caught
load_phonebook(f) ==
    IF ~f.exists THEN [exc |-> "None", book |-> <<>>]
    ELSE IF ~f.json THEN [exc |-> "JSONDecodeError", book |-> <<>>]
    ELSE [exc |-> "None", book |-> f.value]

----------------------------------------------------------------------------
(* Handlers of cli_bot.py. input_error returns str(e) for a KeyError or a *)
(* ValueError of the handler and a usage text for an IndexError; other    *)
(* exceptions leave the call.                                             *)

UsageText == "Invalid command. Available commands"

\* outcome of a decorated handler whose body ended with exception e ("None"
\* when it returned), message msg, book d and printed lines
input_error(e, msg, d, printed) ==
    [data |-> d, printed |-> printed, msg |-> msg,
     caught |-> IF e \in {"KeyError", "ValueError", "IndexError"} THEN e ELSE "None",
     exc |-> IF e \in {"KeyError", "ValueError", "IndexError"} THEN "None" ELSE e,
     value |-> IF e \in {"KeyError", "ValueError"} THEN msg
               ELSE IF e = "IndexError" THEN UsageText ELSE ""]

\* add_contact(name, book, phone=phone): a phone for the record found, or
\* a new record, stored only when its phone was accepted
add_contact(d, name, phone) ==
    LET record == find(d, name)
        r == add_phone(IF record # <<>> THEN record[1] ELSE NewRecord(name), phone)
    IN  IF r.exc # "None" THEN input_error(r.exc, r.msg, d, <<>>)
        ELSE IF record # <<>>
        THEN input_error("None", "", Store(d, r.rec), <<"Phone number added to contact">>)
        ELSE input_error("None", "", add_record(d, r.rec), <<"Contact added with phone number">>)

\* change_contact(name, new_phone, book): edits the first phone of the record
change_contact(d, name, new_phone) ==
    LET record == find(d, name) IN
    IF record = <<>> THEN input_error("ValueError", "Contact not found.", d, <<>>)
    ELSE IF ~ValidPhone(new_phone) THEN input_error("ValueError", "Invalid phone", d, <<>>)
    ELSE IF record[1].phones = <<>> THEN input_error("IndexError", "list index out of range", d, <<>>)
    ELSE LET r == edit_phone(record[1], record[1].phones[1], normalize_phone(new_phone)) IN
         IF r.exc # "None" THEN input_error(r.exc, r.msg, d, <<>>)
         ELSE input_error("None", "", Store(d, r.rec), <<"Contact updated.">>)

delete_contact(d, name) ==
    IF find(d, name) = <<>>
    THEN input_error("ValueError", "Contact not found.", d, <<>>)
    ELSE input_error("None", "", delete_record(d, name), <<"Contact deleted.">>)

\* str.lower() of the names and patterns used
Lower(text) ==
    CASE text = "Ann" -> "ann"
      [] text = "Bob" -> "bob"
      [] OTHER -> text

\* pattern in text, for the lower-cased patterns, names and phones used
Contains(text, pattern) ==
    <<pattern, text>> \in { <<"ann", "ann">>, <<"bob", "bob">>, <<"an", "ann">>,
                            <<"0501", "+380501">>, <<"050", "+380501">>,
                            <<"050", "+380502">> }

SearchMatches(record, pattern) ==
    \/ Contains(Lower(record.name), Lower(pattern))
    \/ \E i \in 1..Len(record.phones) : Contains(Lower(record.phones[i]), Lower(pattern))

\* the names of the records of d that match pattern, in the order of d
RECURSIVE NamesWhere(_, _)
NamesWhere(d, pattern) ==
    IF d = <<>> THEN <<>>
    ELSE (IF SearchMatches(Head(d), pattern) THEN <<Head(d).name>> ELSE <<>>)
         \o NamesWhere(Tail(d), pattern)

\* search_contact(pattern, book): one printed line per matching record,
\* represented by the name it starts with
search_contact(d, pattern) ==
    LET lines == NamesWhere(d, pattern) IN
    IF lines = <<>> THEN input_error("ValueError", "Contact not found.", d, <<>>)
    ELSE input_error("None", "", d, lines)

\* show_phonebook(book, sorted_=False): one printed line per record, in
\* the order of the dict, represented by the name it holds
show_phonebook(d) ==
    input_error("None", "", d, [i \in 1..Len(d) |-> d[i].name])

\* add_birthday(name, birthday, book)
add_birthday_contact(d, name, birthday) ==
    LET record == find(d, name) IN
    IF record = <<>> THEN input_error("ValueError", "Contact not found.", d, <<>>)
    ELSE LET r == add_birthday(record[1], birthday) IN
         input_error("None", "", Store(d, r.rec),
                     r.printed \o <<"Birthday for contact added">>)

\* show_birthday(name, book)
show_birthday(d, name) ==
    LET record == find(d, name) IN
    IF record = <<>> THEN input_error("ValueError", "Contact not found.", d, <<>>)
    ELSE IF record[1].birthday # NoBirthday
    THEN input_error("None", "", d, <<"Birthday for contact">>)
    ELSE input_error("None", "", d, <<"No birthday found for contact">>)

\* birthdays(book): get_upcoming_birthdays returns a text, which is never
\* empty, and the loop unpacks its first character into three names
birthdays(d, today, now) ==
    LET r == get_upcoming_birthdays(d, today, now) IN
    IF r.exc = "AttributeError"
    THEN input_error("AttributeError", "'NoneType' object has no attribute 'value'", d, <<>>)
    ELSE IF r.exc = "ValueError"
    THEN input_error("ValueError", "day is out of range for month", d, <<>>)
    ELSE input_error("ValueError", "not enough values to unpack (expected 3, got 1)", d,
                     <<"Upcoming birthdays in the next week:">>)

----------------------------------------------------------------------------
(* State: data is AddressBook.data, file is phonebook.json, ret records   *)
(* the last call (its name argument and whether that name was a key when  *)
(* it was made, the exception it raised, what it returned), out the lines *)
(* it printed, pc the state of the command loop. In ret, exc is the       *)
(* exception that left the call, caught the one input_error caught, value *)
(* the string returned ("" for None), record the Record passed to         *)
(* add_record                                                             *)

NoRet ==
    [op |-> "", name |-> "", present |-> FALSE, today |-> <<>>,
     exc |-> "None", msg |-> "", caught |-> "None", value |-> "",
     upcoming |-> <<>>, book |-> <<>>, record |-> NewRecord("")]

\* phone lists passed to Record(name, phones)
PhoneLists == { <<>>, <<"0501", "0501">>, <<"+380502", "abc">> }

\* birthdays passed to Record(name, phones, birthday)
InitBirthdays == { NoBirthday, <<15, 6, 1990>>, <<29, 2, 2021>> }

Init ==
    /\ data = <<>>
    /\ file = NoFile
    /\ ret = NoRet
    /\ out = <<>>
    /\ pc = "start"

Call(op, name) == [NoRet EXCEPT !.op = op, !.name = name, !.present = name \in Keys(data)]

\* book.add_record(Record(name, phones, birthday))
AddRecord(name, phones, birthday) ==
    LET r == RecordInit(name, phones, birthday) IN
    /\ data' = add_record(data, r.rec)
    /\ ret' = [Call("add_record", name) EXCEPT !.record = r.rec]
    /\ out' = r.printed
    /\ UNCHANGED <<file, pc>>

\* book.find(name).add_phone(phone)
AddPhone(name, phone) ==
    /\ name \in Keys(data)
    /\ Len(find(data, name)[1].phones) < MaxPhones
    /\ LET r == add_phone(find(data, name)[1], phone) IN
       /\ data' = Store(data, r.rec)
       /\ ret' = [Call("add_phone", name) EXCEPT !.exc = r.exc, !.msg = r.msg]
       /\ out' = r.printed
    /\ UNCHANGED <<file, pc>>

\* book.find(name).edit_phone(phone, new_phone)
EditPhone(name, phone, new_phone) ==
    /\ name \in Keys(data)
    /\ LET r == edit_phone(find(data, name)[1], phone, new_phone) IN
       /\ data' = Store(data, r.rec)
       /\ ret' = [Call("edit_phone", name) EXCEPT !.exc = r.exc, !.msg = r.msg]
       /\ out' = r.printed
    /\ UNCHANGED <<file, pc>>

\* book.find(name).delete_phone(phone)
DeletePhone(name, phone) ==
    /\ name \in Keys(data)
    /\ LET r == delete_phone(find(data, name)[1], phone) IN
       /\ data' = Store(data, r.rec)
       /\ ret' = [Call("delete_phone", name) EXCEPT !.exc = r.exc, !.msg = r.msg]
       /\ out' = r.printed
    /\ UNCHANGED <<file, pc>>

\* book.find(name).add_birthday(value)
AddBirthday(name, value) ==
    /\ name \in Keys(data)
    /\ LET r == add_birthday(find(data, name)[1], value) IN
       /\ data' = Store(data, r.rec)
       /\ ret' = [Call("add_birthday", name) EXCEPT !.exc = r.exc, !.msg = r.msg]
       /\ out' = r.printed
    /\ UNCHANGED <<file, pc>>

\* book.delete_record(name)
DeleteRecord(name) ==
    /\ data' = delete_record(data, name)
    /\ ret' = Call("delete_record", name)
    /\ out' = <<>>
    /\ UNCHANGED <<file, pc>>

\* book.get_upcoming_birthdays(); date.today() is read twice, and the
\* second reading is the same day or, across midnight, the next
GetUpcomingBirthdays(today, now) ==
    /\ LET r == get_upcoming_birthdays(data, today, now) IN
       ret' = [NoRet EXCEPT !.op = "get_upcoming_birthdays", !.today = today,
                            !.exc = r.exc, !.upcoming = r.value]
    /\ out' = <<>>
    /\ UNCHANGED <<data, file, pc>>

\* delete_contact(name, book), the guarded deletion of the assistant
DeleteContact(name) ==
    /\ LET r == delete_contact(data, name) IN
       /\ data' = r.data
       /\ ret' = [Call("delete_contact", name) EXCEPT
                      !.exc = r.exc, !.caught = r.caught, !.msg = r.msg, !.value = r.value]
       /\ out' = r.printed
    /\ UNCHANGED <<file, pc>>

Next ==
    \/ \E name \in Names, phones \in PhoneLists, birthday \in InitBirthdays :
          AddRecord(name, phones, birthday)
    \/ \E name \in Names, phone \in RawPhones : AddPhone(name, phone)
    \/ \E name \in Names, phone \in RawPhones, new_phone \in RawPhones :
          EditPhone(name, phone, new_phone)
    \/ \E name \in Names, phone \in RawPhones : DeletePhone(name, phone)
    \/ \E name \in Names, value \in RawBirthdays : AddBirthday(name, value)
    \/ \E name \in Names : DeleteRecord(name)
    \/ \E name \in Names : DeleteContact(name)
    \/ \E today \in Todays : \E now \in {today, NextDay(today)} :
          GetUpcomingBirthdays(today, now)

Spec == Init /\ [][Next]_vars

----------------------------------------------------------------------------
(* The same operations with the persistence functions *)

\* save_phonebook(book)
SavePhonebook ==
    /\ LET r == save_phonebook(data, "AddressBook") IN
       /\ file' = r.file
       /\ ret' = [NoRet EXCEPT !.op = "save_phonebook", !.exc = r.exc]
    /\ out' = <<>>
    /\ UNCHANGED <<data, pc>>

\* load_phonebook()
LoadPhonebook ==
    /\ LET r == load_phonebook(file) IN
       ret' = [NoRet EXCEPT !.op = "load_phonebook", !.exc = r.exc, !.book = r.book]
    /\ out' = <<>>
    /\ UNCHANGED <<data, file, pc>>

NextStore ==
    \/ Next
    \/ SavePhonebook
    \/ LoadPhonebook

SpecStore == Init /\ [][NextStore]_vars

----------------------------------------------------------------------------
(* main(): the command loop of the assistant *)

\* phonebook.json as an earlier save_phonebook call leaves it
TruncatedFile == save_phonebook(<<>>, "AddressBook").file

InitMain ==
    /\ data = <<>>
    /\ file \in {NoFile, TruncatedFile}
    /\ ret = NoRet
    /\ out = <<>>
    /\ pc = "start"

\* phonebook = load_phonebook(); an exception of it ends main
MainStart ==
    /\ pc = "start"
    /\ LET r == load_phonebook(file) IN
       /\ data' = r.book
       /\ ret' = [NoRet EXCEPT !.op = "load_phonebook", !.exc = r.exc, !.book = r.book]
       /\ pc' = IF r.exc = "None" THEN "reading" ELSE "crashed"
    /\ out' = <<"Welcome to the assistant bot!">>
    /\ UNCHANGED file

\* the loop body after commands[cmd](args) ended with outcome r: the value
\* returned is dropped, an exception is printed, the loop reads on
Dispatched(cmd, name, today, r) ==
    /\ pc = "reading"
    /\ data' = r.data
    /\ ret' = [Call(cmd, name) EXCEPT
                  !.today = today, !.exc = r.exc, !.caught = r.caught, !.msg = r.msg, !.value = r.value]
    /\ out' = IF r.exc = "None" THEN r.printed ELSE Append(r.printed, "[ERROR]")
    /\ UNCHANGED <<file, pc>>

\* a command that takes arguments, entered without them: args[0] or
\* args[1] raises IndexError in the lambda, outside input_error
MissingArgs(cmd) ==
    Dispatched(cmd, "", <<>>,
               [data |-> data, printed |-> <<>>, msg |-> "list index out of range",
                caught |-> "None", exc |-> "IndexError", value |-> ""])

CmdHello == Dispatched("hello", "", <<>>, input_error("None", "", data, <<"How can I help you?">>))

CmdAdd(name, phone) ==
    /\ name \in Keys(data) => Len(find(data, name)[1].phones) < MaxPhones
    /\ Dispatched("add", name, <<>>, add_contact(data, name, phone))

CmdChange(name, new_phone) ==
    Dispatched("change", name, <<>>, change_contact(data, name, new_phone))

CmdDelete(name) == Dispatched("delete", name, <<>>, delete_contact(data, name))

CmdSearch(cmd, pattern) == Dispatched(cmd, "", <<>>, search_contact(data, pattern))

CmdShow(cmd) == Dispatched(cmd, "", <<>>, show_phonebook(data))

CmdAddBirthday(name, birthday) ==
    Dispatched("add-birthday", name, <<>>, add_birthday_contact(data, name, birthday))

CmdShowBirthday(name) == Dispatched("show-birthday", name, <<>>, show_birthday(data, name))

CmdBirthdays(today, now) == Dispatched("birthdays", "", today, birthdays(data, today, now))

\* close or exit: the good-bye line, then break
CmdClose(cmd) ==
    /\ pc = "reading"
    /\ ret' = [NoRet EXCEPT !.op = cmd]
    /\ out' = <<"Good bye!">>
    /\ pc' = "ended"
    /\ UNCHANGED <<data, file>>

\* a first word that is no command
CmdUnknown ==
    /\ pc = "reading"
    /\ ret' = [NoRet EXCEPT !.op = "unknown"]
    /\ out' = <<"Invalid command.", "Available commands">>
    /\ UNCHANGED <<data, file, pc>>

\* an empty line: command[0] raises IndexError outside the try of the loop
EmptyLine ==
    /\ pc = "reading"
    /\ ret' = [NoRet EXCEPT !.op = "", !.exc = "IndexError", !.msg = "list index out of range"]
    /\ out' = <<>>
    /\ pc' = "crashed"
    /\ UNCHANGED <<data, file>>

SearchPatterns == {"Ann", "050", "zzz"}

NextMain ==
    \/ MainStart
    \/ CmdHello
    \/ \E name \in Names : CmdDelete(name)
    \/ \E name \in Names, phone \in RawPhones : CmdAdd(name, phone)
    \/ \E name \in Names, phone \in RawPhones : CmdChange(name, phone)
    \/ \E cmd \in {"search", "phone"}, pattern \in SearchPatterns : CmdSearch(cmd, pattern)
    \/ \E cmd \in {"show", "all"} : CmdShow(cmd)
    \/ \E name \in Names, birthday \in RawBirthdays : CmdAddBirthday(name, birthday)
    \/ \E name \in Names : CmdShowBirthday(name)
    \/ \E today \in Todays : \E now \in {today, NextDay(today)} : CmdBirthdays(today, now)
    \/ \E cmd \in {"add", "change", "delete", "search", "phone", "add-birthday",
                    "show-birthday"} : MissingArgs(cmd)
    \/ \E cmd \in {"close", "exit"} : CmdClose(cmd)
    \/ CmdUnknown
    \/ EmptyLine

SpecMain == InitMain /\ [][NextMain]_vars

----------------------------------------------------------------------------
(* Properties of the Record and AddressBook operations (Spec) *)

Phones(name) == find(data, name)[1].phones

\* C1: add_phone of a raw phone whose normalized form the record already
\* stores fails with the duplicate-phone error and leaves the phones
\* unchanged, also when the raw phone differs from its normalized form.
C1_DuplicatePhoneRejected ==
    [][\A name \in Names, phone \in RawPhones :
          (/\ AddPhone(name, phone)
           /\ ValidPhone(phone)
           /\ normalize_phone(phone) \in Range(Phones(name)))
          => (/\ ret'.exc = "ValueError"
              /\ ret'.msg = "Phone already exists"
              /\ data' = data)]_vars

NoDuplicates(phones) ==
    \A i, j \in 1..Len(phones) : phones[i] = phones[j] => i = j

\* C2: no record ever holds two equal phone values, whatever add_phone,
\* edit_phone and delete_phone calls were made.
C2_NoDuplicatePhones == \A i \in 1..Len(data) : NoDuplicates(data[i].phones)

\* C3 as stated: add_record of a record whose name is already a key fails
\* and leaves the book unchanged.
C3_AddRecordRejectsDuplicate ==
    [][(ret'.op = "add_record" /\ ret'.present)
          => (ret'.exc # "None" /\ data' = data)]_vars

\* C3 amended: add_record of a record whose name is already a key returns
\* normally and replaces the record stored under that name by the new one;
\* the keys, their order and the other records are unchanged.
C3_AddRecordReplaces ==
    [][(ret'.op = "add_record" /\ ret'.present)
          => (/\ ret'.exc = "None"
              /\ find(data', ret'.name) = <<ret'.record>>
              /\ Len(data') = Len(data)
              /\ \A i \in 1..Len(data) :
                    /\ data'[i].name = data[i].name
                    /\ data[i].name # ret'.name => data'[i] = data[i])]_vars

\* add_record has been called with a name that was a key, and the record
\* now stored under it is the new one (here: one without phones)
C3_Witness ==
    /\ ret.op = "add_record"
    /\ ret.present
    /\ Len(data) = 2
    /\ find(data, ret.name) = <<ret.record>>
    /\ ret.record.phones = <<>>

\* C4: add_birthday of a malformed or impossible date raises the
\* invalid-birthday error to its caller and leaves the birthday unchanged.
C4_InvalidBirthdayRaised ==
    [][\A name \in Names, value \in RawBirthdays :
          (AddBirthday(name, value) /\ ~BirthdayParses(value))
          => (ret'.exc = "ValueError" /\ data' = data)]_vars

\* C5: get_upcoming_birthdays never fails, whatever the book and the date.
C5_UpcomingNeverFails == ret.op = "get_upcoming_birthdays" => ret.exc = "None"

Listed(upcoming, name) == \E k \in 1..Len(upcoming) : upcoming[k].name = name

BirthdayThisYear(record, today) == <<today[1], record.birthday[2], record.birthday[3]>>

\* whole days from birthdayThisYear back to today
DaysSince(record, today) == ToOrdinal(today) - ToOrdinal(BirthdayThisYear(record, today))

\* C6 as stated: a record whose birthday this year is before today is not
\* in the result, whatever its weekday.
C6_PassedExcluded ==
    (ret.op = "get_upcoming_birthdays" /\ ret.exc = "None")
    => \A i \in 1..Len(data) :
          DaysSince(data[i], ret.today) > 0 => ~Listed(ret.upcoming, data[i].name)

\* C6 amended: when the computation returns, a record whose birthday this
\* year is k > 0 days before today is in the result exactly when that day is
\* a Saturday and k <= 2, or a Sunday and k = 1; every other passed
\* birthday is excluded.
C6_PassedExcludedButWeekend ==
    (ret.op = "get_upcoming_birthdays" /\ ret.exc = "None")
    => \A i \in 1..Len(data) :
          LET k == DaysSince(data[i], ret.today)
              wd == Weekday(BirthdayThisYear(data[i], ret.today))
          IN  k > 0 => (Listed(ret.upcoming, data[i].name)
                          <=> ((wd = 5 /\ k <= 2) \/ (wd = 6 /\ k = 1)))

\* the computation returned for a book that holds a passed weekday birthday
\* (excluded) next to a weekend birthday of the days just before today
C6_Witness ==
    /\ ret.op = "get_upcoming_birthdays"
    /\ ret.exc = "None"
    /\ \E i, j \in 1..Len(data) :
          /\ DaysSince(data[i], ret.today) > 0
          /\ ~Listed(ret.upcoming, data[i].name)
          /\ DaysSince(data[j], ret.today) > 0
          /\ Listed(ret.upcoming, data[j].name)

\* C7: for every record with a birthday the result holds the entry (name,
\* birthdayThisYear, congratulationDate = today + d) exactly when the
\* shifted day count d is in 0..7.
C7_UpcomingEntries ==
    ret.op = "get_upcoming_birthdays"
    => \A i \in 1..Len(data) :
          data[i].birthday # NoBirthday
          => LET bty == BirthdayThisYear(data[i], ret.today)
                 base == ToOrdinal(bty) - ToOrdinal(ret.today)
                 d == base + (IF Weekday(bty) = 5 THEN 2
                              ELSE IF Weekday(bty) = 6 THEN 1 ELSE 0)
             IN  (0 <= d /\ d <= 7)
                 <=> \E k \in 1..Len(ret.upcoming) :
                        /\ ret.upcoming[k].name = data[i].name
                        /\ ret.upcoming[k].birthday = bty
                        /\ "congrats_day" \in DOMAIN ret.upcoming[k]
                        /\ ret.upcoming[k].congrats_day = AddDays(ret.today, d)

\* C8 as stated: delete_record of a name that is not a key fails and leaves
\* the book unchanged.
C8_DeleteRecordFails ==
    [][(ret'.op = "delete_record" /\ ~ret'.present)
          => (ret'.exc # "None" /\ data' = data)]_vars

\* C8 amended: delete_record of a name that is not a key returns normally
\* and leaves the book unchanged; the contact-not-found failure is raised by
\* delete_contact, which looks the name up first, leaves the book unchanged
\* and hands the message back through input_error.
C8_DeleteAbsentIsNoOp ==
    [][/\ (ret'.op = "delete_record" /\ ~ret'.present)
             => (ret'.exc = "None" /\ data' = data)
       /\ (ret'.op = "delete_contact" /\ ~ret'.present)
             => (/\ ret'.caught = "ValueError"
                 /\ ret'.value = "Contact not found."
                 /\ data' = data)]_vars

\* delete_record has been called with a name that was not a key of a book
\* that holds a record
C8_Witness ==
    /\ ret.op = "delete_record"
    /\ ~ret.present
    /\ data # <<>>

----------------------------------------------------------------------------
(* Properties of the persistence functions (SpecStore) *)

\* C9: save_phonebook of any book succeeds, and load_phonebook of what it
\* wrote succeeds and returns a book equal to the one saved.
C9_RoundTrip ==
    /\ ret.op = "save_phonebook" => (ret.exc = "None" /\ file.json /\ file.value = data)
    /\ (ret.op = "load_phonebook" /\ file.exists) => (ret.exc = "None" /\ ret.book = file.value)

----------------------------------------------------------------------------
(* Properties of the command loop (SpecMain) *)

ValidationMessages ==
    {"Invalid phone", "Phone already exists", "Invalid date format. Use DD.MM.YYYY",
     "Contact not found."}

\* the last command ended with a validation failure in its handler
ValidationFailure ==
    \/ ret.msg \in ValidationMessages
    \/ "Invalid date format. Use DD.MM.YYYY" \in Range(out)

\* C10: a validation failure in a command's handler is caught, reported on
\* the console, and the loop reads the next command.
C10_FailureReportedLoopContinues ==
    ValidationFailure
    => (/\ pc = "reading"
        /\ ret.exc = "None"
        /\ \E i \in 1..Len(out) : out[i] \in ValidationMessages)

====
